---------------------------- MODULE Spec2Model ----------------------------
(***************************************************************************)
(* Model of credits_monitor.py: the cookie jar of CreditsMonitor, its      *)
(* persistence in the cookie file, the manual cookie import, the refresh   *)
(* navigation of the hidden browser and the credits poll that drives the   *)
(* display.  Every Qt slot runs to completion on the GUI thread, so each   *)
(* handler is one action.                                                  *)
(*                                                                         *)
(* Text (cookie names, cookie values, pasted text) is a sequence of        *)
(* characters; a multi-letter element such as "_session" stands for a run  *)
(* of ordinary characters (no blank, no `=', no `;', no newline).          *)
(* Time is in minutes; the two countdowns are in seconds.                  *)
(*                                                                         *)
(* Spec is the full interleaving of all handlers on few inputs; ParseSpec, *)
(* CreditsSpec and CountdownSpec run the import, the poll and the          *)
(* countdown tick on many inputs.                                          *)
(***************************************************************************)
EXTENDS Integers, Sequences, FiniteSets, TLC

VARIABLES
    phase,            \* "off": no process; "running": CreditsMonitor constructed
    now,              \* the wall clock read by datetime.now(), in minutes
    cookies,          \* self.cookies: name -> value
    cookie_expiry,    \* self.cookie_expiry (None or a time)
    file,             \* content of self.cookie_file
    display,          \* percentage_label, progress_bar and credits_label
    browser_visible,  \* browser_widget shown or hidden
    url,              \* the page web_view was last sent to
    single_shots,     \* pending QTimer.singleShot(.., self.fetch_credits)
    countdown_seconds,         \* self.countdown_seconds
    cookie_countdown_seconds,  \* self.cookie_countdown_seconds
    in_flight,        \* requests.get calls that have not returned yet
    op,               \* the handler that ran last, with its input
    calls             \* what that handler called / printed, in order

vars == <<phase, now, cookies, cookie_expiry, file, display,
          browser_visible, url, single_shots, countdown_seconds,
          cookie_countdown_seconds, in_flight, op, calls>>

---------------------------------------------------------------------------
(* Bounds of the model *)

MaxTime == 55          \* the last time at which a handler runs
MaxShots == 2          \* pending one-shot polls
MaxLen == 4            \* length of the pasted texts enumerated in ParseSpec
MaxUnits == 6          \* credit amounts 0..MaxUnits enumerated in CreditsSpec
MaxTicks == 62         \* countdown ticks after a refresh, in CountdownSpec
MaxFlight == 2         \* requests sent and not answered, in FlightSpec

\* the times at which handlers run: just before, at and after the 55 minutes
TimePoints == {0, MaxTime - 5, MaxTime}

---------------------------------------------------------------------------
(* Program constants *)

FreshMinutes == 55                 \* age_minutes < 55
ExpiryMinutes == 60                \* timedelta(hours=1)
ProgressMax == 1000                \* progress_bar.setMaximum(1000)
None == 0 - 1                      \* cookie_expiry = None
CountdownStart == 60               \* self.countdown_seconds = 60
CookieCountdownStart == 3000       \* self.cookie_countdown_seconds = 50 * 60

SESSION == <<"_session">>
PROXY == <<"web_rpc_proxy_session">>
POSTHOG == <<"ph_posthog">>
AJS == <<"ajs_user_id">>
PLAIN == <<"a">>

---------------------------------------------------------------------------
(* Python dict *)

EmptyDict == [k \in {} |-> <<>>]

\* a variant of the item assignment that starts a new dict
DictSetReplacing(d, k, v) == [x \in {k} |-> v]

DictSet(d, k, v) == [x \in (DOMAIN d) \cup {k} |-> IF x = k THEN v ELSE d[x]]

\* d.update(e)
\* a variant of dict.update that keeps the value of a name it has already
DictUpdateKeepingOld(d, e) ==
    [x \in (DOMAIN d) \cup (DOMAIN e) |-> IF x \in DOMAIN d THEN d[x] ELSE e[x]]

DictUpdate(d, e) ==
    [x \in (DOMAIN d) \cup (DOMAIN e) |-> IF x \in DOMAIN e THEN e[x] ELSE d[x]]

\* the hard-coded initial_cookies of load_cookies_from_file
initial_cookies ==
    [k \in {POSTHOG, AJS, SESSION, PROXY} |->
        IF k = SESSION THEN <<"u0">>
        ELSE IF k = PROXY THEN <<"w0">>
        ELSE IF k = AJS THEN <<"j0">>
        ELSE <<"p0">>]

---------------------------------------------------------------------------
(* Python str: `in', split, strip *)

Whitespace == {" ", "\n"}

Contains(s, c) == \E i \in 1..Len(s) : s[i] = c

FirstIndex(s, c) == CHOOSE i \in 1..Len(s) : s[i] = c /\ \A j \in 1..(i-1) : s[j] # c

RECURSIVE LStrip(_)
LStrip(s) == IF s # <<>> /\ Head(s) \in Whitespace THEN LStrip(Tail(s)) ELSE s

RECURSIVE RStrip(_)
RStrip(s) ==
    IF s # <<>> /\ s[Len(s)] \in Whitespace THEN RStrip(SubSeq(s, 1, Len(s) - 1)) ELSE s

Strip(s) == RStrip(LStrip(s))

\* s.split(sep): the segments between the separators, empty ones included
RECURSIVE Split(_, _)
Split(s, sep) ==
    IF ~Contains(s, sep) THEN <<s>>
    ELSE LET i == FirstIndex(s, sep)
         IN  <<SubSeq(s, 1, i - 1)>> \o Split(SubSeq(s, i + 1, Len(s)), sep)

---------------------------------------------------------------------------
(* Cookie text parser: lines 286-303 of parse_and_load_cookies *)

\* the loop body, applied to the segments in order; a later name overwrites
RECURSIVE ParsePairs(_, _)
ParsePairs(pairs, new_cookies) ==
    IF pairs = <<>> THEN new_cookies
    ELSE LET pair == Strip(Head(pairs))
         IN  IF Contains(pair, "=")
             THEN LET i == FirstIndex(pair, "=")
                      name == SubSeq(pair, 1, i - 1)
                      value == SubSeq(pair, i + 1, Len(pair))
                  IN  ParsePairs(Tail(pairs), DictSet(new_cookies, Strip(name), Strip(value)))
             ELSE ParsePairs(Tail(pairs), new_cookies)

parse_cookie_text(cookie_text) ==
    IF Contains(cookie_text, ";")
    THEN ParsePairs(Split(cookie_text, ";"), EmptyDict)
    ELSE ParsePairs(Split(cookie_text, "\n"), EmptyDict)

---------------------------------------------------------------------------
(* Cookie file: json.dump / json.load of {'cookies': .., 'saved_at': ..} *)

NoFile == [kind |-> "absent", cookies |-> {}, saved_at |-> [t |-> "missing", v |-> 0]]

\* a file that is not JSON: foreign content, or a dump cut short
BrokenFile == [kind |-> "broken", cookies |-> {}, saved_at |-> [t |-> "missing", v |-> 0]]

\* datetime.isoformat() and datetime.fromisoformat()
isoformat(t) == [t |-> "iso", v |-> t]

IsIso(s) == s.t = "iso"

fromisoformat(s) == s.v

\* the members of the JSON object written for a dict
JsonMembers(d) == {<<k, d[k]>> : k \in DOMAIN d}

\* variant: only one member of the object is read back
JsonDictFirstOnly(members) ==
    IF members = {} THEN [k \in {} |-> <<>>]
    ELSE LET m == CHOOSE x \in members : TRUE IN [k \in {m[1]} |-> m[2]]

\* the dict json.load builds from the members of a JSON object
JsonDict(members) ==
    [k \in {m[1] : m \in members} |-> (CHOOSE m \in members : m[1] = k)[2]]

JsonFile(d, t) == [kind |-> "json", cookies |-> JsonMembers(d), saved_at |-> isoformat(t)]

\* save_cookies_to_file: open(.., 'w') may fail (file kept), the dump may
\* fail after the file was truncated (file broken), or the file is written
SaveOutcomes == {"saved", "open_failed", "dump_failed"}

save_cookies_to_file(f, d, t, outcome) ==
    IF outcome = "saved" THEN JsonFile(d, t)
    ELSE IF outcome = "dump_failed" THEN BrokenFile
    ELSE f

SaveCall(outcome) == IF outcome = "saved" THEN "print:Saved cookies" ELSE "print:Error saving cookies"

---------------------------------------------------------------------------
(* Display *)

Blank == [kind |-> "Blank", label |-> 0, bar |-> 0, remaining |-> 0, total |-> 0]

\* show_error_state: "ERROR", "--- / ---", bar 0
show_error_state == [kind |-> "Error", label |-> 0, bar |-> 0, remaining |-> 0, total |-> 0]

\* a field of the response body: an integer, absent, or not a number
IntField(n) == [t |-> "int", v |-> n]
MissingField == [t |-> "missing", v |-> 0]
TextField == [t |-> "str", v |-> 0]

\* data.get(key, 0)
FieldGet(f) == IF f.t = "int" THEN f.v ELSE 0

\* remaining + consumed and total > 0 raise TypeError on a non-number
FieldsAdd(data) == data.remaining.t # "str" /\ data.consumed.t # "str"

\* variant: the bar in whole percents instead of tenths
BarValuesPercent(remaining, total) == {(remaining * 100) \div total}

\* int(percentage * 10) for percentage = (remaining / total) * 100 in binary
\* floating point: the exact quotient truncated, except that a quotient that
\* is a whole number may be computed just below it (29/100 gives 289)
BarValues(remaining, total) ==
    LET q == (remaining * 1000) \div total
    IN  IF remaining = 0 \/ remaining = total \/ (remaining * 1000) % total # 0
        THEN {q}
        ELSE {q - 1, q}

\* f"{percentage:.1f}", in tenths: the nearest tenth; a quotient half way
\* between two tenths goes to the side its binary approximation lies on
LabelValues(remaining, total) ==
    LET q == (remaining * 1000) \div total
        r == (remaining * 1000) % total
    IN  IF 2 * r < total THEN {q}
        ELSE IF 2 * r > total THEN {q + 1}
        ELSE {q, q + 1}

\* update_credits_display on a JSON object whose fields add up
update_credits_display(data, label, bar) ==
    LET remaining == FieldGet(data.remaining)
        total == remaining + FieldGet(data.consumed)
    IN  IF total > 0
        THEN [kind |-> "Normal", label |-> label, bar |-> bar,
              remaining |-> remaining, total |-> total]
        ELSE [kind |-> "Normal", label |-> 0, bar |-> 0,
              remaining |-> remaining, total |-> total]

\* the values the percentage label and the bar can take for a body
Renderings(data) ==
    LET remaining == FieldGet(data.remaining)
        total == remaining + FieldGet(data.consumed)
    IN  IF total > 0
        THEN LabelValues(remaining, total) \X BarValues(remaining, total)
        ELSE {<<0, 0>>}

---------------------------------------------------------------------------
(* load_cookies_from_file, called by __init__ on cookies = {}, expiry = None *)

BadStamp == [t |-> "bad", v |-> 0]        \* a saved_at fromisoformat rejects
NoStamp == [t |-> "missing", v |-> 0]     \* no saved_at (data.get gives None)

\* the fallback of lines 161-170
UseInitialCookies(d, t, printed) ==
    [cookies |-> DictUpdate(d, initial_cookies),
     cookie_expiry |-> t + ExpiryMinutes,
     error |-> FALSE,
     calls |-> printed \o <<"print:Using initial cookies">>]

load_cookies_from_file(f, t) ==
    IF f.kind = "absent" THEN UseInitialCookies(EmptyDict, t, <<>>)
    ELSE IF f.kind = "broken"
    THEN \* json.load raises: nothing was assigned yet
         [cookies |-> EmptyDict, cookie_expiry |-> None, error |-> TRUE,
          calls |-> <<"print:Error loading cookies", "show_error_state">>]
    ELSE LET loaded == JsonDict(f.cookies)
         IN  IF f.saved_at.t = "missing" THEN UseInitialCookies(loaded, t, <<>>)
             ELSE IF ~IsIso(f.saved_at)
             THEN \* fromisoformat raises after self.cookies was assigned
                  [cookies |-> loaded, cookie_expiry |-> None, error |-> TRUE,
                   calls |-> <<"print:Error loading cookies", "show_error_state">>]
             ELSE LET saved_datetime == fromisoformat(f.saved_at)
                      age_minutes == t - saved_datetime
                  IN  IF age_minutes < FreshMinutes
                      THEN [cookies |-> loaded,
                            cookie_expiry |-> saved_datetime + ExpiryMinutes,
                            error |-> FALSE,
                            calls |-> <<"print:Loaded cookies from file">>]
                      ELSE UseInitialCookies(loaded, t, <<"print:Cookies too old">>)

---------------------------------------------------------------------------
(* Inputs *)

\* jars found in the cookie file when the program is first started
InitialJars ==
    { EmptyDict,
      [k \in {PLAIN} |-> <<"1">>],
      [k \in {SESSION, PLAIN} |-> IF k = SESSION THEN <<"u">> ELSE <<"1">>] }

InitialFiles ==
    {NoFile, BrokenFile}
    \cup {JsonFile(d, 0) : d \in InitialJars}
    \cup {[JsonFile([k \in {PLAIN} |-> <<"1">>], 0) EXCEPT !.saved_at = s] : s \in {BadStamp, NoStamp}}

\* cookies the browser reports: values "u.." carry the user identity
CookieEvents ==
    { <<SESSION, <<"1">> >>, <<SESSION, <<"u">> >>, <<PROXY, <<"1">> >>, <<PLAIN, <<"1">> >> }

\* texts pasted into the import dialog
ImportTexts ==
    { <<"_session", "=", "1">>,
      <<"a", "=", "1", ";", " ", "_session", "=", "u">>,
      <<"=", "1">>,
      <<"nonsense">> }

\* what requests.get returns or raises
Exception == [kind |-> "exception", status |-> 0,
              body |-> [kind |-> "none", remaining |-> MissingField, consumed |-> MissingField]]

Response(status, body) == [kind |-> "response", status |-> status, body |-> body]

NoBody == [kind |-> "notjson", remaining |-> MissingField, consumed |-> MissingField]
ArrayBody == [kind |-> "array", remaining |-> MissingField, consumed |-> MissingField]
ObjectBody(r, c) == [kind |-> "object", remaining |-> r, consumed |-> c]

\* no request was sent
NoRequest == [kind |-> "none", status |-> 0, body |-> NoBody]

---------------------------------------------------------------------------
(* State machine *)

Op(name, arg) == [name |-> name, arg |-> arg]

IsAuthenticated(d) == SESSION \in DOMAIN d \/ PROXY \in DOMAIN d

\* variant: the import goes on without any pair
HasPairsAlways(new_cookies) == TRUE

\* `if new_cookies:' of parse_and_load_cookies
HasPairs(new_cookies) == DOMAIN new_cookies # {}

\* variant: 403 is not taken as an authentication failure
IsAuthFailureOnly401(status) == status = 401

\* variant: every error status is taken as an authentication failure
IsAuthFailureAnyError(status) == status >= 400

\* response.status_code == 401 or response.status_code == 403
IsAuthFailure(status) == status = 401 \/ status = 403

Init ==
    /\ phase = "off"
    /\ now = 0
    /\ cookies = EmptyDict
    /\ cookie_expiry = None
    /\ file \in InitialFiles
    /\ display = Blank
    /\ browser_visible = FALSE
    /\ url = "blank"
    /\ single_shots = 0
    /\ countdown_seconds = CountdownStart
    /\ cookie_countdown_seconds = CookieCountdownStart
    /\ in_flight = 0
    /\ op = Op("none", <<>>)
    /\ calls = <<>>

\* time passes between two handlers
Tick ==
    /\ \E t \in TimePoints : t > now /\ now' = t
    /\ UNCHANGED <<phase, cookies, cookie_expiry, file, display, browser_visible, url,
                   single_shots, countdown_seconds, cookie_countdown_seconds,
                   in_flight, op, calls>>

\* main() constructs CreditsMonitor: __init__ with init_ui, setup_browser,
\* load_cookies_from_file and setup_timers
Start ==
    /\ phase = "off"
    /\ phase' = "running"
    /\ LET r == load_cookies_from_file(file, now)
       IN  /\ cookies' = r.cookies
           /\ cookie_expiry' = r.cookie_expiry
           /\ display' = IF r.error THEN show_error_state ELSE Blank
           /\ calls' = r.calls
    /\ browser_visible' = FALSE
    /\ url' = "blank"
    /\ single_shots' = 1
    /\ countdown_seconds' = CountdownStart
    /\ cookie_countdown_seconds' = CookieCountdownStart
    /\ in_flight' = 0
    /\ op' = Op("__init__", <<>>)
    /\ UNCHANGED <<now, file>>

\* cookieAdded signal of the browser's cookie store
on_cookie_added(cookie_name, cookie_value, outcome) ==
    /\ phase = "running"
    /\ LET updated == DictSet(cookies, cookie_name, cookie_value)
       IN  /\ cookies' = updated
           /\ IF IsAuthenticated(updated)
              THEN /\ cookie_expiry' = now + ExpiryMinutes
                   /\ file' = save_cookies_to_file(file, updated, now, outcome)
                   /\ calls' = <<SaveCall(outcome)>>
              ELSE /\ UNCHANGED <<cookie_expiry, file>>
                   /\ calls' = <<>>
    /\ op' = Op("on_cookie_added", <<cookie_name, cookie_value>>)
    /\ UNCHANGED <<phase, now, display, browser_visible, url, single_shots,
                   countdown_seconds, cookie_countdown_seconds, in_flight>>

\* a variant of hide_browser that also clears the credits display
hide_browserClearingDisplay ==
    /\ phase = "running"
    /\ browser_visible' = FALSE
    /\ display' = Blank
    /\ op' = Op("hide_browser", <<>>)
    /\ calls' = <<"hide">>
    /\ UNCHANGED <<phase, now, cookies, cookie_expiry, file, url, single_shots,
                   countdown_seconds, cookie_countdown_seconds, in_flight>>

\* the "Done (Hide Browser)" button
hide_browser ==
    /\ phase = "running"
    /\ browser_visible' = FALSE
    /\ op' = Op("hide_browser", <<>>)
    /\ calls' = <<"hide">>
    /\ UNCHANGED <<phase, now, cookies, cookie_expiry, file, display, url, single_shots,
                   countdown_seconds, cookie_countdown_seconds, in_flight>>

\* the "Reload" button
reload_browser ==
    /\ phase = "running"
    /\ op' = Op("reload_browser", <<>>)
    /\ calls' = <<"reload">>
    /\ UNCHANGED <<phase, now, cookies, cookie_expiry, file, display, browser_visible,
                   url, single_shots, countdown_seconds, cookie_countdown_seconds,
                   in_flight>>

\* manual import of pasted cookie text
parse_and_load_cookies(cookie_text, outcome) ==
    /\ phase = "running"
    /\ LET new_cookies == parse_cookie_text(cookie_text)
       IN  IF HasPairs(new_cookies)
           THEN /\ single_shots < MaxShots
                /\ cookies' = DictUpdate(cookies, new_cookies)
                /\ cookie_expiry' = now + ExpiryMinutes
                /\ file' = save_cookies_to_file(file, DictUpdate(cookies, new_cookies), now, outcome)
                /\ single_shots' = single_shots + 1
                /\ calls' = <<SaveCall(outcome), "singleShot">>
                /\ UNCHANGED display
           ELSE \* raise ValueError("No valid cookies"), caught at line 314
                /\ display' = show_error_state
                /\ calls' = <<"show_error_state", "print:Import error">>
                /\ UNCHANGED <<cookies, cookie_expiry, file, single_shots>>
    /\ op' = Op("parse_and_load_cookies", cookie_text)
    /\ UNCHANGED <<phase, now, browser_visible, url, countdown_seconds,
                   cookie_countdown_seconds, in_flight>>

\* timeout of cookie_refresh_timer
refresh_cookies ==
    /\ phase = "running"
    /\ url' = "login"
    /\ op' = Op("refresh_cookies", <<>>)
    /\ cookie_countdown_seconds' = CookieCountdownStart
    /\ calls' = <<"setUrl", "print:Auto-refreshing cookies">>
    /\ UNCHANGED <<phase, now, cookies, cookie_expiry, file, display,
                   browser_visible, single_shots, countdown_seconds, in_flight>>

\* lines 334-356 of fetch_credits: the request was sent and resp came back
AnswerOf(resp, rendering) ==
    IF resp.kind = "response" /\ resp.status = 200
    THEN IF resp.body.kind = "object" /\ FieldsAdd(resp.body)
         THEN /\ rendering \in Renderings(resp.body)
              /\ display' = update_credits_display(resp.body, rendering[1], rendering[2])
              /\ calls' = <<"GET", "update_credits_display">>
              /\ UNCHANGED <<browser_visible, url>>
         ELSE \* response.json() or update_credits_display raises
              /\ display' = show_error_state
              /\ calls' = <<"GET", "show_error_state">>
              /\ UNCHANGED <<browser_visible, url>>
    ELSE IF resp.kind = "response" /\ IsAuthFailure(resp.status)
    THEN \* show_error_state(); show_browser()
         /\ display' = show_error_state
         /\ url' = "login"
         /\ browser_visible' = TRUE
         /\ calls' = <<"GET", "show_error_state", "setUrl", "show">>
    ELSE \* another status, or requests.get raised
         /\ display' = show_error_state
         /\ calls' = <<"GET", "show_error_state">>
         /\ UNCHANGED <<browser_visible, url>>

\* a variant of fetch_credits that forgets the session the server refused
fetch_creditsDroppingSession(resp, rendering) ==
    /\ phase = "running"
    /\ op' = Op("fetch_credits", IF DOMAIN cookies = {} THEN NoRequest ELSE resp)
    /\ IF DOMAIN cookies = {}
       THEN /\ display' = show_error_state
            /\ calls' = <<"show_error_state">>
            /\ UNCHANGED <<browser_visible, url, countdown_seconds, cookies, cookie_expiry>>
       ELSE /\ countdown_seconds' = CountdownStart
            /\ AnswerOf(resp, rendering)
            /\ IF resp.kind = "response" /\ IsAuthFailure(resp.status)
               THEN cookies' = EmptyDict /\ cookie_expiry' = None
               ELSE UNCHANGED <<cookies, cookie_expiry>>
    /\ UNCHANGED <<phase, now, file, cookie_countdown_seconds, in_flight>>

\* the body of fetch_credits for the answer resp of the endpoint; rendering
\* is the <<label, bar>> the floating-point arithmetic produces
fetch_credits(resp, rendering) ==
    /\ phase = "running"
    /\ op' = Op("fetch_credits", IF DOMAIN cookies = {} THEN NoRequest ELSE resp)
    /\ IF DOMAIN cookies = {}
       THEN \* lines 330-332: no request
            /\ display' = show_error_state
            /\ calls' = <<"show_error_state">>
            /\ UNCHANGED <<browser_visible, url, countdown_seconds>>
       ELSE /\ countdown_seconds' = CountdownStart
            /\ AnswerOf(resp, rendering)
    /\ UNCHANGED <<phase, now, cookies, cookie_expiry, file, cookie_countdown_seconds,
                   in_flight>>

\* timeout of data_refresh_timer
DataRefreshTimeout(answers) ==
    /\ \E resp \in answers :
         \E rendering \in (IF resp.body.kind = "object" THEN Renderings(resp.body) ELSE {<<0, 0>>}) :
            fetch_credits(resp, rendering)
    /\ UNCHANGED single_shots

\* a QTimer.singleShot(.., self.fetch_credits) fires
SingleShotTimeout(answers) ==
    /\ single_shots > 0
    /\ single_shots' = single_shots - 1
    /\ \E resp \in answers :
         \E rendering \in (IF resp.body.kind = "object" THEN Renderings(resp.body) ELSE {<<0, 0>>}) :
            fetch_credits(resp, rendering)

\* timeout of countdown_timer, every second
update_countdown ==
    /\ phase = "running"
    /\ countdown_seconds' = IF countdown_seconds - 1 < 0 THEN CountdownStart
                             ELSE countdown_seconds - 1
    /\ cookie_countdown_seconds' = IF cookie_countdown_seconds - 1 < 0 THEN CookieCountdownStart
                                    ELSE cookie_countdown_seconds - 1
    /\ op' = Op("update_countdown", <<>>)
    /\ calls' = <<>>
    /\ UNCHANGED <<phase, now, cookies, cookie_expiry, file, display,
                   browser_visible, url, single_shots, in_flight>>

\* app.aboutToQuit -> window.save_cookies_to_file, then the process ends
Quit ==
    /\ phase = "running"
    /\ phase' = "off"
    /\ \E outcome \in SaveOutcomes :
         /\ file' = save_cookies_to_file(file, cookies, now, outcome)
         /\ calls' = <<SaveCall(outcome)>>
    /\ op' = Op("aboutToQuit", <<>>)
    \* the process is gone, and its memory with it
    /\ cookies' = EmptyDict
    /\ cookie_expiry' = None
    /\ display' = Blank
    /\ browser_visible' = FALSE
    /\ url' = "blank"
    /\ single_shots' = 0
    /\ countdown_seconds' = CountdownStart
    /\ cookie_countdown_seconds' = CookieCountdownStart
    /\ in_flight' = 0
    /\ UNCHANGED now

CookieAdded(events) == \E c \in events : \E outcome \in SaveOutcomes :
                           on_cookie_added(c[1], c[2], outcome)

Import(texts) == \E text \in texts : \E outcome \in SaveOutcomes :
                     parse_and_load_cookies(text, outcome)

\* the inputs of the full interleaving
FewEvents == { <<SESSION, <<"1">> >>, <<SESSION, <<"u">> >>, <<PLAIN, <<"1">> >> }
FewTexts == { <<"_session", "=", "1">>, <<"nonsense">> }
FewResponses ==
    { Exception, Response(401, NoBody), Response(403, NoBody), Response(500, NoBody),
      Response(200, NoBody), Response(200, ArrayBody),
      Response(200, ObjectBody(TextField, IntField(1))),
      Response(200, ObjectBody(IntField(750), IntField(250))) }

Next ==
    \/ Tick
    \/ Start
    \/ CookieAdded(FewEvents)
    \/ hide_browser
    \/ reload_browser
    \/ Import(FewTexts)
    \/ refresh_cookies
    \/ DataRefreshTimeout(FewResponses)
    \/ SingleShotTimeout(FewResponses)
    \/ Quit

Spec == Init /\ [][Next]_vars

---------------------------------------------------------------------------
(* The parser on every short text: one import per run of the program *)

Alphabet == {"a", "1", "=", ";", " ", "\n"}

ExampleTexts ==
    { <<"a", "=", "1", ";", " ", "b", "=", "2">>,
      <<"a", "=", "1", "\n", "b", "=", "2">>,
      <<"nonsense">> }

Texts == UNION {[1..n -> Alphabet] : n \in 0..MaxLen} \cup ExampleTexts

FirstImport == op.name = "__init__" /\ Import(Texts)

ParseNext == Start \/ FirstImport

ParseSpec == Init /\ [][ParseNext]_vars

---------------------------------------------------------------------------
(* The credits arithmetic on every small pair of amounts *)

Units == (0..MaxUnits) \cup {29, 100, 250, 750}

UnitFields == {IntField(n) : n \in Units} \cup {MissingField}

CreditsResponses == {Response(200, ObjectBody(r, c)) : r \in UnitFields, c \in UnitFields}

CreditsNext == Start \/ DataRefreshTimeout(CreditsResponses)

CreditsSpec == Init /\ [][CreditsNext]_vars

---------------------------------------------------------------------------
(* The countdowns: the one-second tick between polls and refreshes.  The
   tick only touches the two countdowns, which no handler reads, so it is
   left out of the other specifications. *)

CountdownTick ==
    /\ cookie_countdown_seconds > CookieCountdownStart - MaxTicks
    /\ update_countdown

CountdownNext ==
    \/ Start
    \/ CountdownTick
    \/ refresh_cookies
    \/ DataRefreshTimeout({Response(200, ObjectBody(IntField(750), IntField(250)))})

CountdownSpec == Init /\ [][CountdownNext]_vars

---------------------------------------------------------------------------
(* The poll in two steps: fetch_credits is a slot of the GUI thread and
   requests.get is a blocking call in it.  Between the call and its return
   the thread is inside the slot: the event loop dispatches no timer and no
   signal before the slot has returned. *)

\* a variant in which the event loop runs while a request is out
ThreadIdleAsync == TRUE

\* the GUI thread is in the event loop, not inside requests.get
ThreadIdle == in_flight = 0

\* lines 334-343: one of the poll timers fires, the request is sent
send_request ==
    /\ phase = "running"
    /\ ThreadIdle
    /\ in_flight < MaxFlight
    /\ DOMAIN cookies # {}
    /\ in_flight' = in_flight + 1
    /\ op' = Op("requests.get", <<>>)
    /\ calls' = <<"GET">>
    /\ UNCHANGED <<phase, now, cookies, cookie_expiry, file, display, browser_visible, url,
                   single_shots, countdown_seconds, cookie_countdown_seconds>>

\* lines 345-358: requests.get returns or raises, the outcome is applied
receive_response(resp, rendering) ==
    /\ phase = "running"
    /\ in_flight > 0
    /\ in_flight' = in_flight - 1
    /\ countdown_seconds' = CountdownStart
    /\ AnswerOf(resp, rendering)
    /\ op' = Op("fetch_credits", resp)
    /\ UNCHANGED <<phase, now, cookies, cookie_expiry, file, single_shots,
                   cookie_countdown_seconds>>

FlightResponses ==
    { Exception, Response(401, NoBody), Response(500, NoBody),
      Response(200, ObjectBody(IntField(750), IntField(250))),
      Response(200, ObjectBody(IntField(1), IntField(1))) }

PollReturns ==
    \E resp \in FlightResponses :
      \E rendering \in (IF resp.body.kind = "object" THEN Renderings(resp.body) ELSE {<<0, 0>>}) :
         receive_response(resp, rendering)

\* the other events are dispatched by the event loop
FlightCookieAdded == ThreadIdle /\ CookieAdded(FewEvents)

FlightRefresh == ThreadIdle /\ refresh_cookies

FlightHide == ThreadIdle /\ hide_browser

FlightNext ==
    \/ Start
    \/ send_request
    \/ PollReturns
    \/ FlightCookieAdded
    \/ FlightRefresh
    \/ FlightHide

FlightSpec == Init /\ [][FlightNext]_vars

---------------------------------------------------------------------------
(* Vocabulary of the properties *)

\* the step is a run of the handler called name
StepOf(name) == now' = now /\ op'.name = name

Called(trace, c) == \E i \in 1..Len(trace) : trace[i] = c

\* the value carries the user-identity marker
HasMarker(value) == \E i \in 1..Len(value) : value[i] \in {"u", "u0"}

\* the pairs a cookie event or an import asks the store to set
Written(o) ==
    IF o.name = "on_cookie_added" THEN [k \in {o.arg[1]} |-> o.arg[2]]
    ELSE parse_cookie_text(o.arg)

\* the name/value pairs of a jar
Pairs(d) == {<<k, d[k]>> : k \in DOMAIN d}

---------------------------------------------------------------------------
(* C1: a _session value that carries the user-identity marker is not
   replaced by a cookie event or an import whose _session value lacks the
   marker; a value with the marker replaces it, and every other name is
   overwritten.  Fails: both paths assign unconditionally. *)
C1_OverwriteProtection ==
    [][ (StepOf("on_cookie_added")
            \/ (StepOf("parse_and_load_cookies") /\ Called(calls', "singleShot")))
        => \A k \in DOMAIN Written(op') :
              IF /\ k = SESSION
                 /\ SESSION \in DOMAIN cookies
                 /\ HasMarker(cookies[SESSION])
                 /\ ~HasMarker(Written(op')[k])
              THEN cookies'[SESSION] = cookies[SESSION]
              ELSE cookies'[k] = Written(op')[k] ]_vars

(* C2: on startup a file younger than 55 minutes gives exactly the file's
   cookies and expiry = saved_at + 1 hour; an older file is discarded, none
   of its cookies is in the store.  Fails for the older file: its cookies
   stay in the store under the initial cookies. *)
C2_FreshnessAtLoad ==
    [][ (StepOf("__init__") /\ phase = "off" /\ file.kind = "json" /\ file.saved_at.t = "iso")
        => IF now - file.saved_at.v < 55
           THEN /\ Pairs(cookies') = file.cookies
                /\ cookie_expiry' = file.saved_at.v + 60
           ELSE \A m \in file.cookies :
                    ~(m[1] \in DOMAIN cookies' /\ cookies'[m[1]] = m[2]) ]_vars

(* C3: a poll answered with 401 or 403 leaves the display in Error and has
   sent the browser to the login page, in the same handler run. *)
C3_AuthFailureStartsRefresh ==
    (op.name = "fetch_credits" /\ op.arg.kind = "response" /\ op.arg.status \in {401, 403})
    => /\ display.kind = "Error"
       /\ Called(calls, "setUrl")
       /\ url = "login"
       /\ browser_visible

C3_Witness ==
    /\ op.name = "fetch_credits"
    /\ op.arg.kind = "response"
    /\ op.arg.status = 403
    /\ Called(calls, "setUrl")
    /\ display.kind = "Error"

(* C4: a poll on an empty store sends no request and ends like a 401/403:
   display Error and the browser sent to the login page.  Fails: the
   browser is not navigated. *)
C4_EmptyStoreIsAuthRequired ==
    (op.name = "fetch_credits" /\ op.arg = NoRequest)
    => /\ ~Called(calls, "GET")
       /\ display.kind = "Error"
       /\ Called(calls, "setUrl")
       /\ url = "login"

\* the answers that are neither a snapshot nor an authentication failure
Malformed(body) ==
    body.kind # "object" \/ body.remaining.t = "str" \/ body.consumed.t = "str"

Transient(r) ==
    \/ r.kind = "exception"
    \/ r.kind = "response" /\ r.status \notin {200, 401, 403}
    \/ r.kind = "response" /\ r.status = 200 /\ Malformed(r.body)

(* C5: a poll that ends in another status, a network error, a timeout or a
   malformed 200 body puts the display in Error, does not navigate the
   browser and schedules no poll; one-shot polls are only scheduled by the
   startup and by a successful import. *)
C5_TransientError ==
    [][ /\ (StepOf("fetch_credits") /\ Transient(op'.arg))
           => /\ display'.kind = "Error"
              /\ url' = url
              /\ browser_visible' = browser_visible
              /\ ~Called(calls', "setUrl")
              /\ ~Called(calls', "singleShot")
              /\ single_shots' <= single_shots
        /\ (single_shots' > single_shots)
           => (StepOf("__init__") \/ StepOf("parse_and_load_cookies")) ]_vars

C5_Witness ==
    /\ op.name = "fetch_credits"
    /\ op.arg.kind = "response"
    /\ op.arg.status = 500
    /\ display.kind = "Error"
    /\ url = "blank"

\* a field of the body as the claim counts it: a missing field is 0
Amount(f) == IF f.t = "int" THEN f.v ELSE 0

Abs(x) == IF x < 0 THEN 0 - x ELSE x

(* C6: a 200 poll with amounts remaining and consumed shows remaining and
   total = remaining + consumed; for total > 0 the bar is the quotient
   1000 * remaining / total cut to an integer of 0..1000 (one less at most
   when the quotient is whole) and the label is that quotient to the
   nearest tenth of a percent; for total = 0 label and bar are 0; 750 and
   250 give 75.0 %, 750 and 1000. *)
C6_CreditsArithmetic ==
    (/\ op.name = "fetch_credits"
     /\ op.arg.kind = "response"
     /\ op.arg.status = 200
     /\ op.arg.body.kind = "object"
     /\ op.arg.body.remaining.t # "str"
     /\ op.arg.body.consumed.t # "str")
    => LET remaining == Amount(op.arg.body.remaining)
           consumed == Amount(op.arg.body.consumed)
           total == remaining + consumed
       IN  /\ display.kind = "Normal"
           /\ display.remaining = remaining
           /\ display.total = total
           /\ display.bar \in 0..1000
           /\ total > 0 =>
                /\ display.bar * total <= 1000 * remaining
                /\ 1000 * remaining <= (display.bar + 1) * total
                /\ 2 * Abs(display.label * total - 1000 * remaining) <= total
           /\ total = 0 => (display.label = 0 /\ display.bar = 0)
           /\ (remaining = 750 /\ consumed = 250) =>
                (display.label = 750 /\ display.total = 1000)

C6_Witness ==
    /\ op.name = "fetch_credits"
    /\ op.arg.kind = "response"
    /\ op.arg.body.remaining = IntField(750)
    /\ op.arg.body.consumed = IntField(250)
    /\ display.kind = "Normal"
    /\ display.label = 750
    /\ display.total = 1000

(* C7: after every operation that changes the in-memory store, the file
   holds the cookies of the store.  Fails: the startup fallback and a cookie
   event on a jar without session cookie change the store and write
   nothing. *)
C7_PersistenceFollowsMutation ==
    [][ (cookies' # cookies /\ phase' = "running")
        => (file'.kind = "json" /\ file'.cookies = Pairs(cookies')) ]_vars

\* the jar a successful save wrote: the jar of the process, which is gone
\* after the save at shutdown
SavedJar == IF op'.name = "aboutToQuit" THEN cookies ELSE cookies'

\* ages below the 55 minutes, the extreme ones and those the clock produces
FreshAges == {0, 5, 10, 50, 54}

(* C8: whenever save_cookies_to_file has written the store, loading the
   written file in a new process less than 55 minutes later gives a store
   with exactly the same names and values. *)
C8_SaveLoadRoundTrip ==
    [][ (now' = now /\ Called(calls', "print:Saved cookies"))
        => \A age \in FreshAges :
              Pairs(load_cookies_from_file(file', now + age).cookies) = Pairs(SavedJar) ]_vars

\* a process that was started on a file a previous process saved
C8_Witness ==
    /\ phase = "running"
    /\ op.name = "__init__"
    /\ calls = <<"print:Loaded cookies from file">>
    /\ file.saved_at.v > 0
    /\ now > file.saved_at.v
    /\ PLAIN \in DOMAIN cookies
    /\ Pairs(cookies) = file.cookies

\* the parser as the claim describes it
RECURSIVE ReferencePairs(_, _)
ReferencePairs(segments, acc) ==
    IF segments = <<>> THEN acc
    ELSE LET seg == Head(segments)
         IN  IF ~Contains(seg, "=") THEN ReferencePairs(Tail(segments), acc)
             ELSE LET i == FirstIndex(seg, "=")
                      name == Strip(SubSeq(seg, 1, i - 1))
                      value == Strip(SubSeq(seg, i + 1, Len(seg)))
                  IN  IF name = <<>> THEN ReferencePairs(Tail(segments), acc)
                      ELSE ReferencePairs(Tail(segments),
                              [x \in (DOMAIN acc) \cup {name} |-> IF x = name THEN value ELSE acc[x]])

ReferenceParse(text) ==
    ReferencePairs(Split(text, IF Contains(text, ";") THEN ";" ELSE "\n"), [k \in {} |-> <<>>])

(* C9: the mapping parsed from a pasted text is the reference mapping:
   split on `;' if there is one, else on newlines; split each segment on
   its first `=', trim both sides, skip segments without `=' or with an
   empty name; a later duplicate wins.  Fails: an empty name is kept. *)
C9_ParserMatchesReference ==
    (op.name = "parse_and_load_cookies")
    => Pairs(parse_cookie_text(op.arg)) = Pairs(ReferenceParse(op.arg))

(* C10: an import whose text yields no name=value pair fails and leaves
   the store, the expiry and the file unchanged and schedules no poll. *)
C10_FailedImportLeavesState ==
    [][ (StepOf("parse_and_load_cookies") /\ Pairs(parse_cookie_text(op'.arg)) = {})
        => /\ Called(calls', "print:Import error")
           /\ cookies' = cookies
           /\ cookie_expiry' = cookie_expiry
           /\ file' = file
           /\ single_shots' = single_shots
           /\ ~Called(calls', "singleShot") ]_vars

C10_Witness ==
    /\ op.name = "parse_and_load_cookies"
    /\ op.arg = <<"nonsense">>
    /\ Called(calls, "print:Import error")
    /\ display.kind = "Error"
    /\ cookies # EmptyDict

(* C11: the display changes only in a poll: the startup load, an import, a
   cookie event, a refresh tick, a countdown tick and hide_browser leave it
   as it was.  Fails: a failed load and a failed import call
   show_error_state. *)
C11_DisplayChangesOnlyInPoll ==
    [][ (display' # display /\ phase' = "running") => StepOf("fetch_credits") ]_vars

\* the file cannot be parsed: no JSON, or no valid timestamp in saved_at
Unparseable(f) == f.kind = "broken" \/ (f.kind = "json" /\ f.saved_at.t # "iso")

(* C12: a startup on a file that cannot be parsed ends with the store, the
   expiry and the display that a startup without a file gives, and the
   process runs.  Fails: the store is empty or holds the file's cookies,
   the expiry is None and the display is Error. *)
C12_LoadFailureAsAbsent ==
    [][ (StepOf("__init__") /\ phase = "off" /\ Unparseable(file))
        => /\ phase' = "running"
           /\ cookies' = load_cookies_from_file(NoFile, now).cookies
           /\ cookie_expiry' = load_cookies_from_file(NoFile, now).cookie_expiry
           /\ display' = Blank ]_vars

(* C13: a save that fails leaves the file with the content it had (never
   empty or partial), changes neither the store nor the expiry, and the
   handler that saved ends as it does after a successful save.  Fails: the
   file is opened for writing before the content is produced, so a failure
   after the open leaves it truncated. *)
C13_SaveIsAtomic ==
    [][ (now' = now /\ file.kind = "json" /\ Called(calls', "print:Error saving cookies"))
        => /\ file' = file
           /\ op'.name = "aboutToQuit" => phase' = "off"
           /\ op'.name # "aboutToQuit" =>
                /\ phase' = "running"
                /\ IsAuthenticated(cookies')
                /\ cookie_expiry' = now + ExpiryMinutes ]_vars

(* C14: a poll, whatever its outcome (200, 401/403, another status, an
   exception, or no request on an empty store), leaves the store, the
   expiry and the file as they were. *)
C14_PollLeavesSession ==
    [][ StepOf("fetch_credits")
        => /\ cookies' = cookies
           /\ cookie_expiry' = cookie_expiry
           /\ file' = file ]_vars

\* a refused poll of a process that holds a saved, dated jar
C14_Witness ==
    /\ op.name = "fetch_credits"
    /\ op.arg.kind = "response"
    /\ op.arg.status = 401
    /\ IsAuthenticated(cookies)
    /\ cookie_expiry # None
    /\ file.kind = "json"
    /\ file.cookies = Pairs(cookies)

\* the jar holds one of the two session cookies
Authenticated(d) == SESSION \in DOMAIN d \/ PROXY \in DOMAIN d

\* the pairs of the text if the step is an import, none otherwise
ImportedPairs ==
    IF StepOf("parse_and_load_cookies") THEN parse_cookie_text(op'.arg) ELSE EmptyDict

\* the step is a cookie event that leaves the jar authenticated, or an
\* import that succeeded
MarksFresh(parsed) ==
    \/ StepOf("on_cookie_added") /\ Authenticated(cookies')
    \/ DOMAIN parsed # {}

\* the file holds the store of the next state, stamped with the present time
FileIsStoreNow ==
    /\ file'.kind = "json"
    /\ file'.cookies = Pairs(cookies')
    /\ file'.saved_at.t = "iso"
    /\ file'.saved_at.v = now

\* after an import every parsed pair is in the store, the other names keep
\* their value; an event on a jar without session cookie leaves expiry and file
MergeAndFrame(parsed) ==
    /\ DOMAIN parsed # {}
       => /\ Pairs(parsed) \subseteq Pairs(cookies')
          /\ \A k \in DOMAIN cookies :
                k \notin DOMAIN parsed => (k \in DOMAIN cookies' /\ cookies'[k] = cookies[k])
    /\ (StepOf("on_cookie_added") /\ ~Authenticated(cookies'))
       => (cookie_expiry' = cookie_expiry /\ file' = file)

(* C15 as stated: a cookie event that leaves the jar authenticated and
   every successful import set expiry = now + 1 hour and leave the file
   with the cookies of the store and saved_at = now; the import merges; an
   event on an unauthenticated jar changes neither expiry nor file.  Fails
   when the write fails: the expiry is set, the file is not the store. *)
C15_MarkFreshWritesFile ==
    [][ LET parsed == ImportedPairs
        IN  /\ MarksFresh(parsed) => (cookie_expiry' = now + 60 /\ FileIsStoreNow)
            /\ MergeAndFrame(parsed) ]_vars

(* C15, amended: such a step sets expiry = now + 1 hour and calls
   save_cookies_to_file; when the write succeeds the file holds the cookies
   of the store and saved_at = now, when it fails the failure is printed
   and the expiry stays set; the rest as stated. *)
C15_MarkFreshSaves ==
    [][ LET parsed == ImportedPairs
        IN  /\ MarksFresh(parsed)
               => /\ cookie_expiry' = now + 60
                  /\ Called(calls', "print:Saved cookies") \/ Called(calls', "print:Error saving cookies")
                  /\ Called(calls', "print:Saved cookies") => FileIsStoreNow
            /\ MergeAndFrame(parsed) ]_vars

\* a successful import, later than the start, into a jar with other names
C15_Witness ==
    /\ op.name = "parse_and_load_cookies"
    /\ op.arg = <<"_session", "=", "1">>
    /\ Called(calls, "print:Saved cookies")
    /\ now > 0
    /\ cookie_expiry = now + 60
    /\ file.kind = "json"
    /\ file.saved_at.v = now
    /\ file.cookies = Pairs(cookies)
    /\ cookies[SESSION] = <<"1">>
    /\ PLAIN \in DOMAIN cookies

\* the step is a poll answered with 200 and a body with two amounts
SuccessfulPoll ==
    /\ StepOf("fetch_credits")
    /\ op'.arg.kind = "response"
    /\ op'.arg.status = 200
    /\ ~Malformed(op'.arg.body)

(* C16: once the display is Error, as it is after a poll answered with 401
   or 403, it is Error in every later state of the process until a poll is
   answered with 200 and a well-formed body, which makes it Normal: no
   refresh tick, cookie event, import, hide_browser or countdown tick and no
   other poll ends the Error. *)
C16_ErrorUntilSuccessfulPoll ==
    [][ (display.kind = "Error" /\ phase' = "running" /\ display'.kind # "Error")
        => (SuccessfulPoll /\ display'.kind = "Normal") ]_vars

\* the browser is only shown by a refused poll: here it was shown, and a
\* later poll has put the display back to Normal
C16_Witness ==
    /\ op.name = "fetch_credits"
    /\ op.arg.kind = "response"
    /\ op.arg.status = 200
    /\ display.kind = "Normal"
    /\ browser_visible
    /\ url = "login"

(* C17: in every state of the process (before a refresh, during one, after
   hide_browser) a cookie event is applied to the store: afterwards the
   store maps the name to the value of the event, unless the
   overwrite-protection rule keeps a marked _session; hide_browser changes
   neither store, expiry, file nor a timer; a refresh tick sends the browser
   to the login page and resets the cookie countdown, and leaves store,
   expiry, file, display and the other timers.  Fails in the protected
   case: the event overwrites the marked _session. *)
C17_CaptureIndependentOfDriver ==
    [][ /\ StepOf("on_cookie_added")
           => IF /\ op'.arg[1] = SESSION
                 /\ SESSION \in DOMAIN cookies
                 /\ HasMarker(cookies[SESSION])
                 /\ ~HasMarker(op'.arg[2])
              THEN cookies'[SESSION] = cookies[SESSION]
              ELSE op'.arg[1] \in DOMAIN cookies' /\ cookies'[op'.arg[1]] = op'.arg[2]
        /\ StepOf("hide_browser")
           => /\ cookies' = cookies
              /\ cookie_expiry' = cookie_expiry
              /\ file' = file
              /\ single_shots' = single_shots
              /\ countdown_seconds' = countdown_seconds
              /\ cookie_countdown_seconds' = cookie_countdown_seconds
        /\ StepOf("refresh_cookies")
           => /\ url' = "login"
              /\ cookie_countdown_seconds' = 3000
              /\ cookies' = cookies
              /\ cookie_expiry' = cookie_expiry
              /\ file' = file
              /\ display' = display
              /\ single_shots' = single_shots
              /\ countdown_seconds' = countdown_seconds ]_vars

\* the expiry of the process that saves in this step; it is one hour after
\* the last refresh of the store (lines 155, 169, 218, 307)
SavedExpiry == IF op'.name = "aboutToQuit" THEN cookie_expiry ELSE cookie_expiry'

(* C18: the saved_at a save writes is never later than the last refresh of
   the store (an authenticated cookie event, a successful import, or the
   load that dated the jar), so that a jar refreshed 55 minutes or more
   before a startup is not loaded as fresh.  Fails: the save at shutdown
   stamps the jar with the time of the shutdown. *)
C18_NoRestampOfStaleSession ==
    [][ (now' = now /\ Called(calls', "print:Saved cookies") /\ SavedExpiry # None)
        => /\ file'.saved_at.t = "iso"
           /\ file'.saved_at.v + 60 <= SavedExpiry ]_vars

(* C19: polls do not overlap: at most one request is out at any time, and
   while one is out the only step is the return of requests.get, applied to
   the display by the same run of fetch_credits: no timer tick and no
   cookie event in between, so the outcomes reach the display in the order
   of the requests. *)
C19_PollsNeverOverlap ==
    [][ /\ in_flight' <= 1
        /\ in_flight = 1 => (op'.name = "fetch_credits" /\ in_flight' = 0) ]_vars

\* a second request is out after the first one was answered and shown
C19_Witness ==
    /\ in_flight = 1
    /\ op.name = "requests.get"
    /\ display.kind = "Normal"

(* C20: in a running process no step removes a name from the store: cookie
   events, imports, polls, refresh ticks and saves leave every name of the
   store in the store. *)
C20_StoreOnlyGrows ==
    [][ (phase = "running" /\ phase' = "running")
        => DOMAIN cookies \subseteq DOMAIN cookies' ]_vars

\* the store has grown by a name and a later event replaced a value in it
C20_Witness ==
    /\ op.name = "on_cookie_added"
    /\ op.arg[1] = SESSION
    /\ (DOMAIN initial_cookies) \cup {PLAIN} \subseteq DOMAIN cookies

====
